---- MODULE Spec2Model ----
(***************************************************************************)
(* A state-machine model of src/main.cpp: GLFW start-up, the render loop   *)
(* of main(), key_callback() and drawCube().                               *)
(*                                                                         *)
(* Units.  Angles are kept in half-degrees (1 unit = 0.5 degree), so the   *)
(* 0.5f auto-rotation is 1 and the 5.0f key step is 10.  Vertex            *)
(* coordinates are kept in halves too (0.5f = 1), colour channels of       *)
(* drawCube are 0 or 1 as written, and the clear colour is in hundredths   *)
(* (0.15f = 15).                                                           *)
(***************************************************************************)
EXTENDS Integers, Sequences, FiniteSets, TLC

\* ------------------------------------------------------------- bounds
\* Loop iterations one run of the model may start.
MaxFrames == 3
\* Key events the backend delivers in one run of the model.
MaxEvents == 3

\* ------------------------------------------------- program constants
WIDTH == 800
HEIGHT == 600
\* 5.0f of key_callback, in half-degrees.
KeyStep == 10
\* 0.5f of the auto-rotation, in half-degrees.
AutoStep == 1
\* -3.0f of glTranslatef, in halves.
CameraZ == -6

\* ------------------------------------------------------ float (binary32)
\* angleX and angleY are C++ floats: 24 significant bits.
F32Mantissa == 2^24

Abs(n) == IF n < 0 THEN -n ELSE n

\* The spacing of binary32 values around magnitude a (a in model units, which
\* are themselves a power of two of the real value, so spacing scales alike).
RECURSIVE Ulp(_)
Ulp(a) == IF a < F32Mantissa THEN 1 ELSE 2 * Ulp(a \div 2)

\* Round-to-nearest, ties-to-even, of the exact value n to a binary32 value.
F32Round(n) ==
    LET a  == Abs(n)
        u  == Ulp(a)
        q  == a \div u
        r  == a % u
        lo == q * u
        m  == IF 2 * r < u THEN lo
              ELSE IF 2 * r > u THEN lo + u
              ELSE IF q % 2 = 0 THEN lo ELSE lo + u
    IN  IF n < 0 THEN -m ELSE m

\* x + y on floats (the += of key_callback and of the loop): the exact sum,
\* rounded once.
FloatAdd(x, y) == F32Round(x + y)

\* ------------------------------------------------------------ key events
Keys == {"GLFW_KEY_ESCAPE", "GLFW_KEY_LEFT", "GLFW_KEY_RIGHT",
         "GLFW_KEY_UP", "GLFW_KEY_DOWN", "GLFW_KEY_SPACE"}
Actions == {"GLFW_PRESS", "GLFW_RELEASE", "GLFW_REPEAT"}
NoEvent == <<"none", "none">>

PressOrRepeat(action) == action = "GLFW_PRESS" \/ action = "GLFW_REPEAT"

\* ------------------------------------------------------- GL matrices
\* A matrix is kept as the list of factors multiplied onto the identity, in
\* the order of the calls (glTranslatef and glRotatef right-multiply the
\* current matrix).
Identity == <<>>
Translation(x, y, z) == [op |-> "translate", x |-> x, y |-> y, z |-> z]
Rotation(angle, axis) == [op |-> "rotate", angle |-> angle, axis |-> axis]
Perspective(fovy, w, h, near, far) ==
    [op |-> "perspective", fovy |-> fovy, w |-> w, h |-> h,
     near |-> near, far |-> far]

\* A factor that is the identity matrix: a translation by the zero vector, a
\* rotation by exactly 0 degrees (cos 0 = 1, sin 0 = 0).
IsIdentityFactor(f) ==
    \/ f.op = "translate" /\ f.x = 0 /\ f.y = 0 /\ f.z = 0
    \/ f.op = "rotate" /\ f.angle = 0

\* The matrix a factor list denotes, identity factors dropped.
Simplify(m) == SelectSeq(m, LAMBDA f : ~IsIdentityFactor(f))

\* glm::perspective(glm::radians(45.0f), WIDTH / HEIGHT, 0.1f, 100.0f);
\* near and far in tenths.
ProjectionMatrix == <<Perspective(45, WIDTH, HEIGHT, 1, 1000)>>

\* GL's clear colour at context creation, and the one main() sets
\* (hundredths).
DefaultClearColor == <<0, 0, 0, 0>>
ClearColor == <<10, 10, 15, 100>>
ClearMask == {"GL_COLOR_BUFFER_BIT", "GL_DEPTH_BUFFER_BIT"}

\* ------------------------------------------------------------- drawCube
GlBegin == [op |-> "glBegin", args |-> <<"GL_QUADS">>]
GlEnd == [op |-> "glEnd", args |-> <<>>]
GlColor3f(r, g, b) == [op |-> "glColor3f", args |-> <<r, g, b>>]
GlVertex3f(x, y, z) == [op |-> "glVertex3f", args |-> <<x, y, z>>]

\* Mutant: the left face given the right face's colour.
drawCube_LeftMagenta ==
    << GlBegin,
       GlColor3f(1, 0, 0),
       GlVertex3f(-1, -1,  1), GlVertex3f( 1, -1,  1),
       GlVertex3f( 1,  1,  1), GlVertex3f(-1,  1,  1),
       GlColor3f(0, 1, 0),
       GlVertex3f(-1, -1, -1), GlVertex3f(-1,  1, -1),
       GlVertex3f( 1,  1, -1), GlVertex3f( 1, -1, -1),
       GlColor3f(0, 0, 1),
       GlVertex3f(-1,  1, -1), GlVertex3f(-1,  1,  1),
       GlVertex3f( 1,  1,  1), GlVertex3f( 1,  1, -1),
       GlColor3f(1, 1, 0),
       GlVertex3f(-1, -1, -1), GlVertex3f( 1, -1, -1),
       GlVertex3f( 1, -1,  1), GlVertex3f(-1, -1,  1),
       GlColor3f(1, 0, 1),
       GlVertex3f( 1, -1, -1), GlVertex3f( 1,  1, -1),
       GlVertex3f( 1,  1,  1), GlVertex3f( 1, -1,  1),
       GlColor3f(1, 0, 1),
       GlVertex3f(-1, -1, -1), GlVertex3f(-1, -1,  1),
       GlVertex3f(-1,  1,  1), GlVertex3f(-1,  1, -1),
       GlEnd >>

\* The immediate-mode calls of drawCube(), in source order.
drawCube ==
    << GlBegin,
       GlColor3f(1, 0, 0),
       GlVertex3f(-1, -1,  1), GlVertex3f( 1, -1,  1),
       GlVertex3f( 1,  1,  1), GlVertex3f(-1,  1,  1),
       GlColor3f(0, 1, 0),
       GlVertex3f(-1, -1, -1), GlVertex3f(-1,  1, -1),
       GlVertex3f( 1,  1, -1), GlVertex3f( 1, -1, -1),
       GlColor3f(0, 0, 1),
       GlVertex3f(-1,  1, -1), GlVertex3f(-1,  1,  1),
       GlVertex3f( 1,  1,  1), GlVertex3f( 1,  1, -1),
       GlColor3f(1, 1, 0),
       GlVertex3f(-1, -1, -1), GlVertex3f( 1, -1, -1),
       GlVertex3f( 1, -1,  1), GlVertex3f(-1, -1,  1),
       GlColor3f(1, 0, 1),
       GlVertex3f( 1, -1, -1), GlVertex3f( 1,  1, -1),
       GlVertex3f( 1,  1,  1), GlVertex3f( 1, -1,  1),
       GlColor3f(0, 1, 1),
       GlVertex3f(-1, -1, -1), GlVertex3f(-1, -1,  1),
       GlVertex3f(-1,  1,  1), GlVertex3f(-1,  1, -1),
       GlEnd >>

\* --------------------------------------------------------- key_callback
\* Mutant: GLFW_KEY_LEFT adds to angleY.
key_callback_LeftAdds(key, action, s) ==
    LET s1 == IF key = "GLFW_KEY_ESCAPE" /\ action = "GLFW_PRESS"
              THEN [s EXCEPT !.shouldClose = TRUE] ELSE s
        s2 == IF key = "GLFW_KEY_LEFT" /\ PressOrRepeat(action)
              THEN [s1 EXCEPT !.angleY = FloatAdd(@, KeyStep)] ELSE s1
        s3 == IF key = "GLFW_KEY_RIGHT" /\ PressOrRepeat(action)
              THEN [s2 EXCEPT !.angleY = FloatAdd(@, KeyStep)] ELSE s2
        s4 == IF key = "GLFW_KEY_UP" /\ PressOrRepeat(action)
              THEN [s3 EXCEPT !.angleX = FloatAdd(@, -KeyStep)] ELSE s3
        s5 == IF key = "GLFW_KEY_DOWN" /\ PressOrRepeat(action)
              THEN [s4 EXCEPT !.angleX = FloatAdd(@, KeyStep)] ELSE s4
    IN  s5

\* Mutant: GLFW_KEY_UP adds to angleX.
key_callback_UpAdds(key, action, s) ==
    LET s1 == IF key = "GLFW_KEY_ESCAPE" /\ action = "GLFW_PRESS"
              THEN [s EXCEPT !.shouldClose = TRUE] ELSE s
        s2 == IF key = "GLFW_KEY_LEFT" /\ PressOrRepeat(action)
              THEN [s1 EXCEPT !.angleY = FloatAdd(@, -KeyStep)] ELSE s1
        s3 == IF key = "GLFW_KEY_RIGHT" /\ PressOrRepeat(action)
              THEN [s2 EXCEPT !.angleY = FloatAdd(@, KeyStep)] ELSE s2
        s4 == IF key = "GLFW_KEY_UP" /\ PressOrRepeat(action)
              THEN [s3 EXCEPT !.angleX = FloatAdd(@, KeyStep)] ELSE s3
        s5 == IF key = "GLFW_KEY_DOWN" /\ PressOrRepeat(action)
              THEN [s4 EXCEPT !.angleX = FloatAdd(@, KeyStep)] ELSE s4
    IN  s5

\* Mutant: the close flag is set on the release of GLFW_KEY_ESCAPE.
key_callback_QuitOnRelease(key, action, s) ==
    LET s1 == IF key = "GLFW_KEY_ESCAPE" /\ action = "GLFW_RELEASE"
              THEN [s EXCEPT !.shouldClose = TRUE] ELSE s
        s2 == IF key = "GLFW_KEY_LEFT" /\ PressOrRepeat(action)
              THEN [s1 EXCEPT !.angleY = FloatAdd(@, -KeyStep)] ELSE s1
        s3 == IF key = "GLFW_KEY_RIGHT" /\ PressOrRepeat(action)
              THEN [s2 EXCEPT !.angleY = FloatAdd(@, KeyStep)] ELSE s2
        s4 == IF key = "GLFW_KEY_UP" /\ PressOrRepeat(action)
              THEN [s3 EXCEPT !.angleX = FloatAdd(@, -KeyStep)] ELSE s3
        s5 == IF key = "GLFW_KEY_DOWN" /\ PressOrRepeat(action)
              THEN [s4 EXCEPT !.angleX = FloatAdd(@, KeyStep)] ELSE s4
    IN  s5

\* Mutant: GLFW_KEY_DOWN acts whatever the action.
key_callback_DownAnyAction(key, action, s) ==
    LET s1 == IF key = "GLFW_KEY_ESCAPE" /\ action = "GLFW_PRESS"
              THEN [s EXCEPT !.shouldClose = TRUE] ELSE s
        s2 == IF key = "GLFW_KEY_LEFT" /\ PressOrRepeat(action)
              THEN [s1 EXCEPT !.angleY = FloatAdd(@, -KeyStep)] ELSE s1
        s3 == IF key = "GLFW_KEY_RIGHT" /\ PressOrRepeat(action)
              THEN [s2 EXCEPT !.angleY = FloatAdd(@, KeyStep)] ELSE s2
        s4 == IF key = "GLFW_KEY_UP" /\ PressOrRepeat(action)
              THEN [s3 EXCEPT !.angleX = FloatAdd(@, -KeyStep)] ELSE s3
        s5 == IF key = "GLFW_KEY_DOWN"
              THEN [s4 EXCEPT !.angleX = FloatAdd(@, KeyStep)] ELSE s4
    IN  s5

\* The handler on the state it touches, s = [angleX, angleY, shouldClose]:
\* five independent if statements, in source order.
key_callback(key, action, s) ==
    LET s1 == IF key = "GLFW_KEY_ESCAPE" /\ action = "GLFW_PRESS"
              THEN [s EXCEPT !.shouldClose = TRUE] ELSE s
        s2 == IF key = "GLFW_KEY_LEFT" /\ PressOrRepeat(action)
              THEN [s1 EXCEPT !.angleY = FloatAdd(@, -KeyStep)] ELSE s1
        s3 == IF key = "GLFW_KEY_RIGHT" /\ PressOrRepeat(action)
              THEN [s2 EXCEPT !.angleY = FloatAdd(@, KeyStep)] ELSE s2
        s4 == IF key = "GLFW_KEY_UP" /\ PressOrRepeat(action)
              THEN [s3 EXCEPT !.angleX = FloatAdd(@, -KeyStep)] ELSE s3
        s5 == IF key = "GLFW_KEY_DOWN" /\ PressOrRepeat(action)
              THEN [s4 EXCEPT !.angleX = FloatAdd(@, KeyStep)] ELSE s4
    IN  s5

\* ------------------------------------------------------- main: the order
\* Mutant: the two glRotatef calls in the other order.
Succ_RotateYFirst(p) ==
    CASE p = "make_current"  -> "set_key_callback"
      [] p = "set_key_callback" -> "enable_depth"
      [] p = "enable_depth"  -> "projection_mode"
      [] p = "projection_mode" -> "projection_identity"
      [] p = "projection_identity" -> "projection_load"
      [] p = "projection_load" -> "modelview_mode"
      [] p = "modelview_mode" -> "loop"
      [] p = "clear"         -> "clear_color"
      [] p = "clear_color"   -> "load_identity"
      [] p = "load_identity" -> "translate"
      [] p = "translate"     -> "rotate_y"
      [] p = "rotate_x"      -> "draw_cube"
      [] p = "rotate_y"      -> "rotate_x"
      [] p = "draw_cube"     -> "auto_rotate"
      [] p = "auto_rotate"   -> "swap_buffers"
      [] p = "swap_buffers"  -> "poll_events"
      [] p = "poll_events"   -> "loop"
      [] p = "terminate"     -> "return"

\* Mutant: angleY += 0.5f moved before glRotatef(angleY).
Succ_AutoRotateBeforeYaw(p) ==
    CASE p = "make_current"  -> "set_key_callback"
      [] p = "set_key_callback" -> "enable_depth"
      [] p = "enable_depth"  -> "projection_mode"
      [] p = "projection_mode" -> "projection_identity"
      [] p = "projection_identity" -> "projection_load"
      [] p = "projection_load" -> "modelview_mode"
      [] p = "modelview_mode" -> "loop"
      [] p = "clear"         -> "clear_color"
      [] p = "clear_color"   -> "load_identity"
      [] p = "load_identity" -> "translate"
      [] p = "translate"     -> "rotate_x"
      [] p = "rotate_x"      -> "auto_rotate"
      [] p = "rotate_y"      -> "draw_cube"
      [] p = "draw_cube"     -> "swap_buffers"
      [] p = "auto_rotate"   -> "rotate_y"
      [] p = "swap_buffers"  -> "poll_events"
      [] p = "poll_events"   -> "loop"
      [] p = "terminate"     -> "return"

\* The statements of main() after the window exists, in source order; the
\* loop body's last statement leads back to the loop condition.
Succ(p) ==
    CASE p = "make_current"  -> "set_key_callback"
      [] p = "set_key_callback" -> "enable_depth"
      [] p = "enable_depth"  -> "projection_mode"
      [] p = "projection_mode" -> "projection_identity"
      [] p = "projection_identity" -> "projection_load"
      [] p = "projection_load" -> "modelview_mode"
      [] p = "modelview_mode" -> "loop"
      [] p = "clear"         -> "clear_color"
      [] p = "clear_color"   -> "load_identity"
      [] p = "load_identity" -> "translate"
      [] p = "translate"     -> "rotate_x"
      [] p = "rotate_x"      -> "rotate_y"
      [] p = "rotate_y"      -> "draw_cube"
      [] p = "draw_cube"     -> "auto_rotate"
      [] p = "auto_rotate"   -> "swap_buffers"
      [] p = "swap_buffers"  -> "poll_events"
      [] p = "poll_events"   -> "loop"
      [] p = "terminate"     -> "return"

\* int main()'s return value as the process's exit status (POSIX keeps the
\* low 8 bits; Windows keeps all 32: non-zero either way for -1).
ExitStatus(rv) == rv % 256

\* Mutant: no clean-up when the window cannot be created.
WindowFailCalls_None == <<>>

\* Start-up failures: the backend calls made on the failing branch before
\* main() returns, and the value returned.
InitFailCalls == <<>>
WindowFailCalls == <<"glfwTerminate">>
FailReturn == -1

\* ---------------------------------------------------------------- state
VARIABLES
    pc,           \* the statement of main() about to run
    returned,     \* <<>> while main() runs, <<v>> once it has returned v
    setupLog,     \* backend calls made outside the loop body, in order
    frameLog,     \* calls and steps of the current loop iteration, in order
    callbackSet,  \* glfwSetKeyCallback has registered key_callback
    depthTest,    \* GL_DEPTH_TEST is enabled
    matrixMode,   \* GL's current matrix mode
    projection,   \* GL's projection matrix
    modelview,    \* GL's modelview matrix
    clearColor,   \* GL's current clear colour
    cleared,      \* what the latest glClear did: <<>> or <<[mask, color]>>
    drawn,        \* the immediate-mode calls of the latest drawCube()
    angleX,       \* global angleX (pitch), half-degrees
    angleY,       \* global angleY (yaw), half-degrees
    shouldClose,  \* the window's close flag
    \* history, for stating the properties
    frames,       \* frames presented (glfwSwapBuffers calls) so far
    iter,         \* loop iterations started in this run
    nLeft, nRight, nUp, nDown,  \* press-or-repeat events delivered, per key
    nEvents,      \* key events delivered in this run
    lastEvent,    \* the latest key event delivered
    escPressed,   \* an (ESCAPE, PRESS) event has been delivered
    userClosed,   \* the user has asked the window to close
    framesAtQuit, \* frames when the first (ESCAPE, PRESS) was handled, or -1
    failed        \* the start-up call that failed, or "none"

vars == <<pc, returned, setupLog, frameLog, callbackSet, depthTest, matrixMode,
          projection, modelview, clearColor, cleared, drawn, angleX, angleY,
          shouldClose, frames, iter, nLeft, nRight, nUp, nDown, nEvents,
          lastEvent, escPressed, userClosed, framesAtQuit, failed>>

glState == <<depthTest, matrixMode, projection, modelview, clearColor, cleared,
             drawn>>
camera == <<angleX, angleY>>
events == <<nLeft, nRight, nUp, nDown, nEvents, lastEvent, escPressed,
            userClosed, framesAtQuit>>
history == <<frames, iter, events, failed>>

\* The state when main() is entered: the globals zero-initialised, GL's
\* state as a fresh context has it.
Init ==
    /\ pc = "glfw_init"
    /\ returned = <<>>
    /\ setupLog = <<>>
    /\ frameLog = <<>>
    /\ callbackSet = FALSE
    /\ depthTest = FALSE
    /\ matrixMode = "GL_MODELVIEW"
    /\ projection = Identity
    /\ modelview = Identity
    /\ clearColor = DefaultClearColor
    /\ cleared = <<>>
    /\ drawn = <<>>
    /\ angleX = 0
    /\ angleY = 0
    /\ shouldClose = FALSE
    /\ frames = 0
    /\ iter = 0
    /\ nLeft = 0 /\ nRight = 0 /\ nUp = 0 /\ nDown = 0
    /\ nEvents = 0
    /\ lastEvent = NoEvent
    /\ escPressed = FALSE
    /\ userClosed = FALSE
    /\ framesAtQuit = -1
    /\ failed = "none"

\* ------------------------------------------------------ main: start-up
\* if (!glfwInit()) return -1;
GlfwInit ==
    /\ pc = "glfw_init"
    /\ \E ok \in BOOLEAN :
        IF ok
        THEN /\ setupLog' = Append(setupLog, "glfwInit")
             /\ pc' = "create_window"
             /\ UNCHANGED <<returned, failed>>
        ELSE /\ setupLog' = Append(setupLog, "glfwInit") \o InitFailCalls
             /\ returned' = <<FailReturn>>
             /\ failed' = "glfwInit"
             /\ pc' = "done"
    /\ UNCHANGED <<frameLog, callbackSet, glState, camera, shouldClose, frames,
                   iter, events>>

\* window = glfwCreateWindow(...); if (!window) { glfwTerminate(); return -1; }
GlfwCreateWindow ==
    /\ pc = "create_window"
    /\ \E ok \in BOOLEAN :
        IF ok
        THEN /\ setupLog' = Append(setupLog, "glfwCreateWindow")
             /\ pc' = "make_current"
             /\ UNCHANGED <<returned, failed>>
        ELSE /\ setupLog' = Append(setupLog, "glfwCreateWindow") \o WindowFailCalls
             /\ returned' = <<FailReturn>>
             /\ failed' = "glfwCreateWindow"
             /\ pc' = "done"
    /\ UNCHANGED <<frameLog, callbackSet, glState, camera, shouldClose, frames,
                   iter, events>>

\* glfwMakeContextCurrent(window);
GlfwMakeContextCurrent ==
    /\ pc = "make_current"
    /\ setupLog' = Append(setupLog, "glfwMakeContextCurrent")
    /\ pc' = Succ(pc)
    /\ UNCHANGED <<returned, frameLog, callbackSet, glState, camera, shouldClose,
                   history>>

\* glfwSetKeyCallback(window, key_callback);
GlfwSetKeyCallback ==
    /\ pc = "set_key_callback"
    /\ setupLog' = Append(setupLog, "glfwSetKeyCallback")
    /\ callbackSet' = TRUE
    /\ pc' = Succ(pc)
    /\ UNCHANGED <<returned, frameLog, glState, camera, shouldClose, history>>

\* glEnable(GL_DEPTH_TEST);
GlEnableDepthTest ==
    /\ pc = "enable_depth"
    /\ setupLog' = Append(setupLog, "glEnable(GL_DEPTH_TEST)")
    /\ depthTest' = TRUE
    /\ pc' = Succ(pc)
    /\ UNCHANGED <<returned, frameLog, callbackSet, matrixMode, projection,
                   modelview, clearColor, cleared, drawn, camera, shouldClose,
                   history>>

\* GL applies a matrix call to the matrix the current mode selects.
SetCurrentMatrix(m) ==
    /\ projection' = IF matrixMode = "GL_PROJECTION" THEN m ELSE projection
    /\ modelview' = IF matrixMode = "GL_MODELVIEW" THEN m ELSE modelview
CurrentMatrix == IF matrixMode = "GL_PROJECTION" THEN projection ELSE modelview

\* glMatrixMode(GL_PROJECTION);
GlMatrixModeProjection ==
    /\ pc = "projection_mode"
    /\ setupLog' = Append(setupLog, "glMatrixMode(GL_PROJECTION)")
    /\ matrixMode' = "GL_PROJECTION"
    /\ pc' = Succ(pc)
    /\ UNCHANGED <<returned, frameLog, callbackSet, depthTest, projection,
                   modelview, clearColor, cleared, drawn, camera, shouldClose,
                   history>>

\* glLoadIdentity();  (set-up)
GlLoadIdentitySetup ==
    /\ pc = "projection_identity"
    /\ setupLog' = Append(setupLog, "glLoadIdentity")
    /\ SetCurrentMatrix(Identity)
    /\ pc' = Succ(pc)
    /\ UNCHANGED <<returned, frameLog, callbackSet, depthTest, matrixMode,
                   clearColor, cleared, drawn, camera, shouldClose, history>>

\* projection = glm::perspective(...); glLoadMatrixf(glm::value_ptr(projection));
GlLoadMatrixf ==
    /\ pc = "projection_load"
    /\ setupLog' = Append(setupLog, "glLoadMatrixf")
    /\ SetCurrentMatrix(ProjectionMatrix)
    /\ pc' = Succ(pc)
    /\ UNCHANGED <<returned, frameLog, callbackSet, depthTest, matrixMode,
                   clearColor, cleared, drawn, camera, shouldClose, history>>

\* glMatrixMode(GL_MODELVIEW);
GlMatrixModeModelview ==
    /\ pc = "modelview_mode"
    /\ setupLog' = Append(setupLog, "glMatrixMode(GL_MODELVIEW)")
    /\ matrixMode' = "GL_MODELVIEW"
    /\ pc' = Succ(pc)
    /\ UNCHANGED <<returned, frameLog, callbackSet, depthTest, projection,
                   modelview, clearColor, cleared, drawn, camera, shouldClose,
                   history>>

\* ------------------------------------------------------ main: the loop
\* Mutant: the loop also ends once yaw has grown past 0.5 degrees.
LoopTarget_YawExit(flag) ==
    IF ~flag /\ angleY <= AutoStep THEN "clear" ELSE "terminate"

\* while (!glfwWindowShouldClose(window)): where control goes from the loop
\* condition.
LoopTarget(flag) == IF ~flag THEN "clear" ELSE "terminate"

\* while (!glfwWindowShouldClose(window))
LoopCondition ==
    /\ pc = "loop"
    /\ pc' = LoopTarget(shouldClose)
    /\ IF pc' = "clear"
       THEN /\ iter < MaxFrames
            /\ iter' = iter + 1
            /\ frameLog' = <<>>
       ELSE UNCHANGED <<iter, frameLog>>
    /\ UNCHANGED <<returned, setupLog, callbackSet, glState, camera, shouldClose,
                   frames, events, failed>>

\* glClear(GL_COLOR_BUFFER_BIT | GL_DEPTH_BUFFER_BIT): the buffers are
\* cleared to the clear colour current at the call.
GlClear ==
    /\ pc = "clear"
    /\ frameLog' = Append(frameLog, "glClear")
    /\ cleared' = <<[mask |-> ClearMask, color |-> clearColor]>>
    /\ pc' = Succ(pc)
    /\ UNCHANGED <<returned, setupLog, callbackSet, depthTest, matrixMode,
                   projection, modelview, clearColor, drawn, camera, shouldClose,
                   history>>

\* glClearColor(0.1f, 0.1f, 0.15f, 1.0f);
GlClearColor ==
    /\ pc = "clear_color"
    /\ frameLog' = Append(frameLog, "glClearColor")
    /\ clearColor' = ClearColor
    /\ pc' = Succ(pc)
    /\ UNCHANGED <<returned, setupLog, callbackSet, depthTest, matrixMode,
                   projection, modelview, cleared, drawn, camera, shouldClose,
                   history>>

\* glLoadIdentity();  (loop)
GlLoadIdentity ==
    /\ pc = "load_identity"
    /\ frameLog' = Append(frameLog, "glLoadIdentity")
    /\ SetCurrentMatrix(Identity)
    /\ pc' = Succ(pc)
    /\ UNCHANGED <<returned, setupLog, callbackSet, depthTest, matrixMode,
                   clearColor, cleared, drawn, camera, shouldClose, history>>

\* glTranslatef(0.0f, 0.0f, -3.0f);
GlTranslatef ==
    /\ pc = "translate"
    /\ frameLog' = Append(frameLog, "glTranslatef")
    /\ SetCurrentMatrix(Append(CurrentMatrix, Translation(0, 0, CameraZ)))
    /\ pc' = Succ(pc)
    /\ UNCHANGED <<returned, setupLog, callbackSet, depthTest, matrixMode,
                   clearColor, cleared, drawn, camera, shouldClose, history>>

\* glRotatef(angleX, 1.0f, 0.0f, 0.0f);
GlRotatefX ==
    /\ pc = "rotate_x"
    /\ frameLog' = Append(frameLog, "glRotatef(angleX)")
    /\ SetCurrentMatrix(Append(CurrentMatrix, Rotation(angleX, "X")))
    /\ pc' = Succ(pc)
    /\ UNCHANGED <<returned, setupLog, callbackSet, depthTest, matrixMode,
                   clearColor, cleared, drawn, camera, shouldClose, history>>

\* glRotatef(angleY, 0.0f, 1.0f, 0.0f);
GlRotatefY ==
    /\ pc = "rotate_y"
    /\ frameLog' = Append(frameLog, "glRotatef(angleY)")
    /\ SetCurrentMatrix(Append(CurrentMatrix, Rotation(angleY, "Y")))
    /\ pc' = Succ(pc)
    /\ UNCHANGED <<returned, setupLog, callbackSet, depthTest, matrixMode,
                   clearColor, cleared, drawn, camera, shouldClose, history>>

\* drawCube();
DrawCube ==
    /\ pc = "draw_cube"
    /\ frameLog' = Append(frameLog, "drawCube")
    /\ drawn' = drawCube
    /\ pc' = Succ(pc)
    /\ UNCHANGED <<returned, setupLog, callbackSet, depthTest, matrixMode,
                   projection, modelview, clearColor, cleared, camera,
                   shouldClose, history>>

\* angleY += 0.5f;
AutoRotate ==
    /\ pc = "auto_rotate"
    /\ frameLog' = Append(frameLog, "angleY += 0.5f")
    /\ angleY' = FloatAdd(angleY, AutoStep)
    /\ pc' = Succ(pc)
    /\ UNCHANGED <<returned, setupLog, callbackSet, glState, angleX, shouldClose,
                   history>>

\* glfwSwapBuffers(window): the frame is presented.
GlfwSwapBuffers ==
    /\ pc = "swap_buffers"
    /\ frameLog' = Append(frameLog, "glfwSwapBuffers")
    /\ frames' = frames + 1
    /\ pc' = Succ(pc)
    /\ UNCHANGED <<returned, setupLog, callbackSet, glState, camera, shouldClose,
                   iter, events, failed>>

\* glfwPollEvents() dispatching one queued key event: key_callback runs if
\* it is registered.
DeliverKey(key, action) ==
    /\ pc = "poll_events"
    /\ nEvents < MaxEvents
    /\ LET s == [angleX |-> angleX, angleY |-> angleY, shouldClose |-> shouldClose]
           t == IF callbackSet THEN key_callback(key, action, s) ELSE s
       IN  /\ angleX' = t.angleX
           /\ angleY' = t.angleY
           /\ shouldClose' = t.shouldClose
    /\ nEvents' = nEvents + 1
    /\ lastEvent' = <<key, action>>
    /\ nLeft' = nLeft + IF key = "GLFW_KEY_LEFT" /\ PressOrRepeat(action) THEN 1 ELSE 0
    /\ nRight' = nRight + IF key = "GLFW_KEY_RIGHT" /\ PressOrRepeat(action) THEN 1 ELSE 0
    /\ nUp' = nUp + IF key = "GLFW_KEY_UP" /\ PressOrRepeat(action) THEN 1 ELSE 0
    /\ nDown' = nDown + IF key = "GLFW_KEY_DOWN" /\ PressOrRepeat(action) THEN 1 ELSE 0
    /\ escPressed' = (escPressed \/ (key = "GLFW_KEY_ESCAPE" /\ action = "GLFW_PRESS"))
    /\ framesAtQuit' = IF escPressed' /\ ~escPressed THEN frames ELSE framesAtQuit
    /\ UNCHANGED <<pc, returned, setupLog, frameLog, callbackSet, glState, frames,
                   iter, userClosed, failed>>

\* glfwPollEvents() dispatching the user's close request: the backend sets
\* the window's close flag.
CloseRequest ==
    /\ pc = "poll_events"
    /\ ~userClosed
    /\ userClosed' = TRUE
    /\ shouldClose' = TRUE
    /\ UNCHANGED <<pc, returned, setupLog, frameLog, callbackSet, glState, camera,
                   frames, iter, nLeft, nRight, nUp, nDown, nEvents, lastEvent,
                   escPressed, framesAtQuit, failed>>

\* glfwPollEvents() returns (it does not block).
PollReturn ==
    /\ pc = "poll_events"
    /\ frameLog' = Append(frameLog, "glfwPollEvents")
    /\ pc' = Succ(pc)
    /\ UNCHANGED <<returned, setupLog, callbackSet, glState, camera, shouldClose,
                   history>>

\* ------------------------------------------------------ main: shutdown
\* glfwTerminate();
GlfwTerminate ==
    /\ pc = "terminate"
    /\ setupLog' = Append(setupLog, "glfwTerminate")
    /\ pc' = Succ(pc)
    /\ UNCHANGED <<returned, frameLog, callbackSet, glState, camera, shouldClose,
                   history>>

\* return 0;
ReturnZero ==
    /\ pc = "return"
    /\ returned' = <<0>>
    /\ pc' = "done"
    /\ UNCHANGED <<setupLog, frameLog, callbackSet, glState, camera, shouldClose,
                   history>>

Next ==
    \/ GlfwInit
    \/ GlfwCreateWindow
    \/ GlfwMakeContextCurrent
    \/ GlfwSetKeyCallback
    \/ GlEnableDepthTest
    \/ GlMatrixModeProjection
    \/ GlLoadIdentitySetup
    \/ GlLoadMatrixf
    \/ GlMatrixModeModelview
    \/ LoopCondition
    \/ GlClear
    \/ GlClearColor
    \/ GlLoadIdentity
    \/ GlTranslatef
    \/ GlRotatefX
    \/ GlRotatefY
    \/ DrawCube
    \/ AutoRotate
    \/ GlfwSwapBuffers
    \/ \E key \in Keys, action \in Actions : DeliverKey(key, action)
    \/ CloseRequest
    \/ PollReturn
    \/ GlfwTerminate
    \/ ReturnZero

Spec == Init /\ [][Next]_vars

\* main() runs on one thread that is never suspended, and glfwPollEvents
\* does not block: a statement that can run does run.
FairSpec == Spec /\ WF_vars(Next)

\* ------------------------------------------------------------ long runs
\* The backend calls of a successful start-up, and the calls and steps of
\* one loop iteration, as the actions above log them.
SetupCalls ==
    <<"glfwInit", "glfwCreateWindow", "glfwMakeContextCurrent",
      "glfwSetKeyCallback", "glEnable(GL_DEPTH_TEST)",
      "glMatrixMode(GL_PROJECTION)", "glLoadIdentity", "glLoadMatrixf",
      "glMatrixMode(GL_MODELVIEW)">>
FrameCalls ==
    <<"glClear", "glClearColor", "glLoadIdentity", "glTranslatef",
      "glRotatef(angleX)", "glRotatef(angleY)", "drawCube", "angleY += 0.5f",
      "glfwSwapBuffers", "glfwPollEvents">>

\* The program at the loop condition after f >= 2 frames during which nd
\* GLFW_KEY_DOWN press-or-repeat events and no other input arrived, none of
\* them in the latest poll, with every float sum so far exact
\* (AutoStep * f <= 2^24 and KeyStep * nd <= 2^25 model units).  iter,
\* nEvents and lastEvent are left to the caller.
AtLongRun(f, nd) ==
    /\ pc = "loop"
    /\ returned = <<>>
    /\ setupLog = SetupCalls
    /\ frameLog = FrameCalls
    /\ callbackSet = TRUE
    /\ depthTest = TRUE
    /\ matrixMode = "GL_MODELVIEW"
    /\ projection = ProjectionMatrix
    /\ modelview = <<Translation(0, 0, CameraZ), Rotation(KeyStep * nd, "X"),
                     Rotation(AutoStep * (f - 1), "Y")>>
    /\ clearColor = ClearColor
    /\ cleared = <<[mask |-> ClearMask, color |-> ClearColor]>>
    /\ drawn = drawCube
    /\ angleX = KeyStep * nd
    /\ angleY = AutoStep * f
    /\ shouldClose = FALSE
    /\ frames = f
    /\ nLeft = 0 /\ nRight = 0 /\ nUp = 0 /\ nDown = nd
    /\ escPressed = FALSE
    /\ userClosed = FALSE
    /\ framesAtQuit = -1
    /\ failed = "none"

\* AtLongRun describes the states the program itself reaches: checked on
\* the runs from Init, for the frame and event counts they reach.
LongRunShape ==
    ( /\ pc = "loop" /\ frames >= 2
      /\ nEvents = nDown /\ ~userClosed
      /\ modelview[2].angle = angleX )
    => AtLongRun(frames, nDown)

\* Frame and event counts just below the end of binary32's exact range:
\* yaw 0.5 * (2^24 - 2) = 2^23 - 1 degrees after that many input-free frames;
\* pitch 5 * 3355443 = 2^24 - 1 degrees after that many repeats of
\* GLFW_KEY_DOWN, one every other frame.
LongFrames == F32Mantissa - 2
LongDowns == (2 * F32Mantissa) \div KeyStep

InitLong ==
    \/ Init
    \/ /\ AtLongRun(LongFrames, 0)
       /\ iter = 0 /\ nEvents = 0 /\ lastEvent = NoEvent
    \/ /\ AtLongRun(2 * LongDowns, LongDowns)
       /\ iter = 0 /\ nEvents = 0
       /\ lastEvent = <<"GLFW_KEY_DOWN", "GLFW_REPEAT">>

\* The program from its start and from the two long-run states.
SpecLong == InitLong /\ [][Next]_vars

\* =============================================================== claims
\* What the claims count.
ExactYaw == KeyStep * (nRight - nLeft) + AutoStep * frames
ExactPitch == KeyStep * (nDown - nUp)
\* The total distance the sums have travelled: a bound on every
\* intermediate magnitude.
YawTravel == KeyStep * (nRight + nLeft) + AutoStep * frames
PitchTravel == KeyStep * (nDown + nUp)
\* binary32 holds every multiple of 0.5 up to 2^23 degrees, and every
\* multiple of 5 up to 2^24 degrees (model units are half-degrees).
YawExactRange == YawTravel <= F32Mantissa
PitchExactRange == PitchTravel <= 2 * F32Mantissa
\* Between angleY += 0.5f and glfwSwapBuffers the frame being built has
\* advanced yaw but is not yet presented.
FrameInFlight == pc = "swap_buffers"
InLoop == pc \in {"loop", "clear", "clear_color", "load_identity", "translate",
                  "rotate_x", "rotate_y", "draw_cube", "auto_rotate",
                  "swap_buffers", "poll_events"}
LoopExited == pc \in {"terminate", "return"} \/ (pc = "done" /\ failed = "none")

\* ------------------------------------------------------------------ C1
\* C1 as stated: at every frame boundary, whatever the order of the frames
\* and key events so far, yaw = 5.0 x (rotate-right minus rotate-left
\* press-or-repeat events) + 0.5 x (frames rendered); with no key input,
\* yaw = 0.5 x N after N frames.
C1_YawIsKeysPlusFrames ==
    ~FrameInFlight => angleY = ExactYaw

\* C1 amended: the same, as long as 0.5 x frames + 5.0 x (rotate-left plus
\* rotate-right events) has not passed 2^23 = 8388608 degrees, the range in
\* which the float sums are exact.
C1_YawIsKeysPlusFramesInRange ==
    (~FrameInFlight /\ YawExactRange) => angleY = ExactYaw

\* Three frames, one rotate-right and two rotate-left events: yaw = -3.5.
C1_Witness ==
    /\ pc = "loop" /\ frames = 3 /\ nRight = 1 /\ nLeft = 2
    /\ angleY = 3 * AutoStep - KeyStep

\* ------------------------------------------------------------------ C2
\* C2 as stated: in every reachable state pitch = 5.0 x (rotate-down minus
\* rotate-up press-or-repeat events).
C2_PitchIsNetDownUp ==
    angleX = ExactPitch

OneUpTwoFrames ==
    /\ nUp = 1 /\ nDown = 0 /\ nLeft = 0 /\ nRight = 0
    /\ frames = 2 /\ ~FrameInFlight

\* C2 amended: pitch = 5.0 x (down minus up events) as long as 5.0 x (down
\* plus up events) has not passed 2^24 = 16777216 degrees; a step that
\* delivers no rotate-up or rotate-down event (a frame, a rotate-left or
\* rotate-right event, any other step) never changes pitch; one rotate-up
\* press and two frames give pitch = -5.0 and yaw = 1.0.
C2_PitchOnlyFromUpDown ==
    /\ [](PitchExactRange => angleX = ExactPitch)
    /\ [](OneUpTwoFrames => (angleX = -KeyStep /\ angleY = 2 * AutoStep))
    /\ [][(nUp' = nUp /\ nDown' = nDown) => angleX' = angleX]_vars

C2_Witness ==
    /\ OneUpTwoFrames /\ pc = "loop"
    /\ lastEvent = <<"GLFW_KEY_UP", "GLFW_PRESS">>
    /\ angleX = -KeyStep /\ angleY = 2 * AutoStep

\* ------------------------------------------------------------------ C3
\* C3: once a quit press has been handled at most one further frame is
\* rendered, main() then terminates, and after the loop has exited no
\* frame is rendered and the loop is not re-entered.
C3_QuitPressTerminates ==
    /\ [](escPressed => frames - framesAtQuit <= 1)
    /\ (escPressed ~> pc = "done")
    /\ [][LoopExited => (frames' = frames /\ LoopExited')]_vars

C3_Witness ==
    /\ escPressed /\ ~userClosed /\ pc = "done" /\ returned = <<0>>
    /\ frames = framesAtQuit /\ frames >= 1

\* ------------------------------------------------------------------ C4
IsEffectiveEvent(e) ==
    \/ e = <<"GLFW_KEY_ESCAPE", "GLFW_PRESS">>
    \/ /\ e[1] \in {"GLFW_KEY_LEFT", "GLFW_KEY_RIGHT", "GLFW_KEY_UP", "GLFW_KEY_DOWN"}
       /\ PressOrRepeat(e[2])

\* C4: delivering a key event other than (quit, press) and (arrow,
\* press-or-repeat) leaves pitch, yaw and the close flag unchanged.
C4_OtherEventsAreNoOps ==
    [][(nEvents' = nEvents + 1 /\ ~IsEffectiveEvent(lastEvent'))
        => (angleX' = angleX /\ angleY' = angleY /\ shouldClose' = shouldClose)]_vars

\* A quit release was delivered and the loop went on to build another frame.
C4_Witness ==
    /\ lastEvent = <<"GLFW_KEY_ESCAPE", "GLFW_RELEASE">>
    /\ pc = "draw_cube" /\ frames >= 1 /\ ~shouldClose

\* ------------------------------------------------------------------ C5
\* C5: the loop has exited only if a quit press or the user's close request
\* has occurred, and while neither has, the loop condition always enters
\* the body.
C5_ExitOnlyOnQuitOrClose ==
    /\ [](LoopExited => (escPressed \/ userClosed))
    /\ [][(pc = "loop" /\ ~escPressed /\ ~userClosed) => pc' = "clear"]_vars

\* The loop exited on the close request alone, arrow keys having been used.
C5_Witness ==
    /\ pc = "done" /\ failed = "none" /\ userClosed /\ ~escPressed
    /\ frames >= 2 /\ nDown >= 1

\* ------------------------------------------------------------------ C6
Exited == pc = "done" /\ returned # <<>>

\* C6: a failed glfwInit ends the process with a non-zero status after no
\* other backend call; a failed glfwCreateWindow ends it with a non-zero
\* status after glfwTerminate; neither renders a frame nor registers the
\* key callback; status 0 comes only after the loop ran and glfwTerminate
\* was called.
C6_StartupFailureIsFatal ==
    /\ failed = "glfwInit" =>
         /\ Exited /\ ExitStatus(returned[1]) # 0
         /\ setupLog = <<"glfwInit">>
    /\ failed = "glfwCreateWindow" =>
         /\ Exited /\ ExitStatus(returned[1]) # 0
         /\ setupLog = <<"glfwInit", "glfwCreateWindow", "glfwTerminate">>
    /\ failed # "none" =>
         /\ frames = 0 /\ iter = 0 /\ frameLog = <<>> /\ ~callbackSet
    /\ (Exited /\ ExitStatus(returned[1]) = 0) =>
         /\ failed = "none" /\ frames >= 1
         /\ setupLog[Len(setupLog)] = "glfwTerminate"

C6_Witness ==
    /\ failed = "glfwCreateWindow" /\ Exited
    /\ setupLog[Len(setupLog)] = "glfwTerminate"

\* ------------------------------------------------------------------ C7
\* The face a quad lies on: the coordinate its four vertices share.
FaceOf(vs) ==
    IF \A i \in 1..4 : vs[i][3] = 1 THEN "front"
    ELSE IF \A i \in 1..4 : vs[i][3] = -1 THEN "back"
    ELSE IF \A i \in 1..4 : vs[i][2] = 1 THEN "top"
    ELSE IF \A i \in 1..4 : vs[i][2] = -1 THEN "bottom"
    ELSE IF \A i \in 1..4 : vs[i][1] = 1 THEN "right"
    ELSE IF \A i \in 1..4 : vs[i][1] = -1 THEN "left"
    ELSE "none"

FaceOrder == <<"front", "back", "top", "bottom", "right", "left">>

\* glBegin, six groups of one glColor3f and four glVertex3f, glEnd.
SixQuads(calls) ==
    /\ Len(calls) = 2 + 6 * 5
    /\ calls[1].op = "glBegin" /\ calls[Len(calls)].op = "glEnd"
    /\ \A k \in 0..5 :
        /\ calls[2 + 5 * k].op = "glColor3f"
        /\ \A j \in 1..4 : calls[2 + 5 * k + j].op = "glVertex3f"
        /\ Cardinality({calls[2 + 5 * k + j].args : j \in 1..4}) = 4
        /\ FaceOf([j \in 1..4 |-> calls[2 + 5 * k + j].args]) = FaceOrder[k + 1]
    /\ \A k, l \in 0..5 :
        k # l => calls[2 + 5 * k].args # calls[2 + 5 * l].args

\* C7: every frame's draw calls are six quads in the order front, back,
\* top, bottom, right, left, each of four vertices after one colour, the six
\* colours pairwise distinct; and every frame issues the same calls.
C7_SixFacesEveryFrame ==
    /\ [](frames >= 1 => drawn # <<>>)
    /\ [](drawn # <<>> => SixQuads(drawn))
    /\ [][drawn # <<>> => drawn' = drawn]_vars

\* The third frame's cube has just been drawn, with pitch and yaw changed
\* by keys.
C7_Witness ==
    /\ pc = "auto_rotate" /\ frames = 2 /\ angleX # 0 /\ nLeft >= 1
    /\ SixQuads(drawn)

\* ------------------------------------------------------------------ C8
\* C8: every glClear of a frame clears the colour and depth buffers to
\* (0.1, 0.1, 0.15, 1.0), the first frame's included.
C8_EveryClearUsesFixedColor ==
    cleared # <<>> => cleared[1] = [mask |-> ClearMask, color |-> ClearColor]

\* ------------------------------------------------------------------ C9
RECURSIVE Count(_, _)
Count(seq, x) ==
    IF seq = <<>> THEN 0
    ELSE (IF seq[1] = x THEN 1 ELSE 0) + Count(Tail(seq), x)

IsPrefix(a, b) == Len(a) <= Len(b) /\ a = SubSeq(b, 1, Len(a))

\* The steps C9 lists, in its order.
ListedSteps ==
    <<"glClear", "glLoadIdentity", "glTranslatef", "glRotatef(angleX)",
      "glRotatef(angleY)", "drawCube", "angleY += 0.5f", "glfwSwapBuffers",
      "glfwPollEvents">>
Listed(log) == SelectSeq(log, LAMBDA c : Count(ListedSteps, c) > 0)

\* C9: an iteration's listed steps occur in the listed order, none skipped
\* or repeated; the depth test is enabled and the projection loaded exactly
\* once before the loop; in the loop the matrix mode stays modelview and
\* the projection stays as loaded; the view built is translate(0,0,-3),
\* rotate(pitch, X), rotate(yaw, Y), which at pitch = yaw = 0 is the
\* translation alone.
C9_IterationOrder ==
    /\ [](IsPrefix(Listed(frameLog), ListedSteps))
    /\ []((pc = "loop" /\ frames >= 1) => Listed(frameLog) = ListedSteps)
    /\ [](InLoop =>
            /\ depthTest
            /\ Count(setupLog, "glEnable(GL_DEPTH_TEST)") = 1
            /\ Count(setupLog, "glLoadMatrixf") = 1
            /\ matrixMode = "GL_MODELVIEW"
            /\ projection = ProjectionMatrix)
    /\ [](pc = "draw_cube" =>
            /\ modelview = <<Translation(0, 0, CameraZ), Rotation(angleX, "X"),
                             Rotation(angleY, "Y")>>
            /\ (angleX = 0 /\ angleY = 0) =>
                 Simplify(modelview) = <<Translation(0, 0, CameraZ)>>)
    /\ [][InLoop => (projection' = projection /\ matrixMode' = matrixMode)]_vars

\* A second iteration has completed, after keys changed both angles.
C9_Witness ==
    /\ pc = "loop" /\ frames = 2 /\ Listed(frameLog) = ListedSteps
    /\ nUp >= 1 /\ nRight >= 1

\* ----------------------------------------------------------------- C10
\* The angles passed to glRotatef for the frame being built.
DrawnPitch == modelview[2].angle
DrawnYaw == modelview[3].angle

\* C10 as stated: frame k (frames = k - 1 presented before it) is drawn
\* with yaw = 0.5 x (k - 1) + 5.0 x (net right-minus-left events so far) and
\* pitch = 5.0 x (net down-minus-up events so far).
C10_FrameDrawnWithBoundaryAngles ==
    pc = "draw_cube" => (DrawnYaw = ExactYaw /\ DrawnPitch = ExactPitch)

\* C10 amended: the same as long as both sums are within the float-exact
\* range (yaw travel <= 2^23 degrees, pitch travel <= 2^24 degrees); key
\* events are delivered only at the poll step; between the loop condition
\* and the draw the angles do not change; the first frame is drawn with
\* pitch = yaw = 0.
C10_FrameDrawnWithBoundaryAnglesInRange ==
    /\ []((pc = "draw_cube" /\ YawExactRange /\ PitchExactRange) =>
            (DrawnYaw = ExactYaw /\ DrawnPitch = ExactPitch))
    /\ []((pc = "draw_cube" /\ frames = 0) => (DrawnYaw = 0 /\ DrawnPitch = 0))
    /\ [][nEvents' # nEvents => (pc = "poll_events" /\ pc' = "poll_events")]_vars
    /\ [][(pc \in {"clear", "clear_color", "load_identity", "translate",
                   "rotate_x", "rotate_y", "draw_cube"})
          => (angleX' = angleX /\ angleY' = angleY)]_vars

\* The third frame is being drawn after a rotate-right and a rotate-down:
\* yaw = 0.5 x 2 + 5.0, pitch = 5.0.
C10_Witness ==
    /\ pc = "draw_cube" /\ frames = 2 /\ nRight = 1 /\ nLeft = 0
    /\ nDown = 1 /\ nUp = 0
    /\ DrawnYaw = 2 * AutoStep + KeyStep /\ DrawnPitch = KeyStep
====
